---- MODULE Spec2Model ----
(***************************************************************************)
(* Model of the graph plotter: the series builder and chart data adapter   *)
(* of the Graph component (components/Graph.tsx), driven by the            *)
(* handleChange handler of the GraphControls component.                    *)
(*                                                                         *)
(* Texts (equation, data, the values typed into the numeric inputs) are    *)
(* sequences of one-character strings, so that split, trim, toLowerCase    *)
(* and parseFloat are computed character by character.  Numbers are        *)
(* integers: the sampling grid is xMin, xMin+step, ... on the integers.    *)
(* The expression evaluator (mathjs) is an external library; it is         *)
(* modelled by its results on a fixed menu of expressions.                 *)
(***************************************************************************)
EXTENDS Integers, Sequences, FiniteSets, TLC

VARIABLES
    controls,     \* App state: the GraphControls record handed to Graph
    error,        \* Graph's useState error: <<>> is null, <<msg>> a message
    series,       \* memoised result of the series builder
    chartData,    \* memoised result of the chart data adapter
    view,         \* what renderChart returned for the committed render
    status,       \* "ready": the render committed; "looping": the sampling loop never exits
    evalLog,      \* the x values passed to math.evaluate by the last build, in call order
    lastPath,     \* the return statement the last build left through
    prevFailed    \* whether an error message was active before the last recomputation

vars == <<controls, error, series, chartData, view, status, evalLog, lastPath, prevFailed>>

----------------------------------------------------------------------------
(* Bounds of the model *)

MaxTokens == 1     \* data texts generated from DataTokens have at most this many tokens
MaxIter == 6       \* sampling-loop iterations followed before the loop is declared non-terminating

----------------------------------------------------------------------------
(* Text primitives *)

Null == <<>>
Msg(m) == <<m>>

IsSpace(ch) == ch = " "

isDigit(ch) == ch \in {"0", "1", "2", "3", "4", "5", "6", "7", "8", "9"}

DigitValue(ch) == CHOOSE n \in 0..9 : ToString(n) = ch

toLowerCase(s) ==
    [i \in 1..Len(s) |->
        CASE s[i] = "X" -> "x"
          [] s[i] = "A" -> "a"
          [] OTHER -> s[i]]

RECURSIVE trimStart(_)
trimStart(s) ==
    IF s # <<>> /\ IsSpace(Head(s)) THEN trimStart(Tail(s)) ELSE s

RECURSIVE trimEnd(_)
trimEnd(s) ==
    IF s # <<>> /\ IsSpace(s[Len(s)]) THEN trimEnd(SubSeq(s, 1, Len(s) - 1)) ELSE s

trim(s) == trimEnd(trimStart(s))

\* s.split(','): the pieces between commas; "" splits into one empty token
RECURSIVE splitFrom(_, _, _)
splitFrom(s, cur, acc) ==
    IF s = <<>> THEN Append(acc, cur)
    ELSE IF Head(s) = "," THEN splitFrom(Tail(s), <<>>, Append(acc, cur))
    ELSE splitFrom(Tail(s), Append(cur, Head(s)), acc)

split(s) == splitFrom(s, <<>>, <<>>)

RECURSIVE LeadingDigits(_)
LeadingDigits(s) ==
    IF s # <<>> /\ isDigit(Head(s)) THEN <<Head(s)>> \o LeadingDigits(Tail(s)) ELSE <<>>

RECURSIVE DigitsValue(_, _)
DigitsValue(ds, acc) ==
    IF ds = <<>> THEN acc ELSE DigitsValue(Tail(ds), 10 * acc + DigitValue(Head(ds)))

NaNValue == [nan |-> TRUE, v |-> 0]
Number(n) == [nan |-> FALSE, v |-> n]

\* parseFloat: leading white space, an optional sign, the longest run of digits;
\* whatever follows the digits is ignored; no digits gives NaN
parseFloat(s) ==
    LET t == trimStart(s)
        signed == t # <<>> /\ Head(t) \in {"-", "+"}
        body == IF signed THEN Tail(t) ELSE t
        ds == LeadingDigits(body)
        mag == DigitsValue(ds, 0)
    IN  IF ds = <<>> THEN NaNValue
        ELSE IF signed /\ Head(t) = "-" THEN Number(0 - mag)
        ELSE Number(mag)

\* x.toFixed(1) of an integer x
toFixed1(x) == ToString(x) \o ".0"

----------------------------------------------------------------------------
(* The evaluator library: the result of math.evaluate(expr, {x}) *)

Num(n) == [kind |-> "num", v |-> n]
NaNResult == [kind |-> "nan", v |-> 0]
Infinity(sign) == [kind |-> "inf", v |-> sign]
Raises == [kind |-> "raise", v |-> 0]

RECURSIVE Factorial(_)
Factorial(n) == IF n <= 0 THEN 1 ELSE n * Factorial(n - 1)

Expr_m5x == <<"-", "5", "*", "x">>
Expr_mixed == <<"0", "^", "x", "*", "x", "/", "x">>
Expr_xFact == <<"x", "!">>
Expr_xm2Fact == <<"(", "x", "-", "2", ")", "!">>

\* -5*x is finite everywhere.  0^x*x/x is an infinity for x < 0 (0^x is
\* Infinity), NaN at 0 (0/0) and 0 for x > 0.  The factorial raises on a
\* negative argument.  Any other text of the menu does not parse, or names
\* an undefined symbol (the upper-case X), and raises.
evaluate(expr, x) ==
    CASE expr = Expr_m5x -> Num((0 - 5) * x)
      [] expr = Expr_mixed ->
            IF x < 0 THEN Infinity(1) ELSE IF x = 0 THEN NaNResult ELSE Num(0)
      [] expr = Expr_xFact -> IF x < 0 THEN Raises ELSE Num(Factorial(x))
      [] expr = Expr_xm2Fact -> IF x - 2 < 0 THEN Raises ELSE Num(Factorial(x - 2))
      [] OTHER -> Raises

isNaN(y) == y.kind = "nan"
isFinite(y) == y.kind = "num"

----------------------------------------------------------------------------
(* Program constants *)

ProbeX == 1            \* the x of the validation evaluation
RadiusFactor == 2      \* bubble radius is |y| * 2 ...
MaxRadius == 20        \* ... capped at 20
ScatterRadius == 4     \* fixed radius of a scatter point

graphTypes ==
    {"line", "bar", "scatter", "pie", "doughnut", "radar", "area",
     "histogram", "bubble", "step", "polar"}

\* as equationKinds, but 'step' is missing from the list
equationKinds_NoStep == {"line", "area", "scatter", "bubble"}

equationKinds == {"line", "area", "scatter", "bubble", "step"}

colors ==
    << <<0, 255, 255, "0.8">>, <<255, 99, 132, "0.8">>, <<255, 206, 86, "0.8">>,
       <<75, 192, 192, "0.8">>, <<153, 102, 255, "0.8">>, <<255, 159, 64, "0.8">> >>

EmptyDataMsg == "Please enter valid comma-separated numbers"
MissingMsg == "Please enter an equation"
InvalidMsg == "Invalid equation format"
NoPointsMsg == "No valid points generated"
GenericMsg == "Error generating graph"
TypeErrorMsg == "controls.equation.toLowerCase is not a function"

----------------------------------------------------------------------------
(* The series builder (the first useMemo of Graph) *)

defaultResult == [points |-> <<>>, labels |-> <<>>, scatterData |-> <<>>]

\* One way out of the builder: the value returned, the return statement taken,
\* the setError calls made on the way, the evaluator calls made, whether the
\* builder returned at all, and the exception escaping to the outer catch.
Done(result, path, calls, log) ==
    [result |-> result, path |-> path, setError |-> calls, evalLog |-> log,
     returned |-> TRUE, thrown |-> <<>>]

Thrown(err) ==
    [result |-> defaultResult, path |-> "throw", setError |-> <<>>, evalLog |-> <<>>,
     returned |-> TRUE, thrown |-> <<err>>]

TypeError(message) == [isError |-> TRUE, message |-> message]

NeverReturns(log) ==
    [result |-> defaultResult, path |-> "none", setError |-> <<>>, evalLog |-> log,
     returned |-> FALSE, thrown |-> <<>>]

\* as parseData, but a token that does not parse becomes 0 instead of being dropped
parseData_ZeroFill(data) ==
    LET tokens == split(data)
        parsed == [i \in 1..Len(tokens) |-> parseFloat(trim(tokens[i]))]
    IN  [i \in 1..Len(parsed) |-> IF parsed[i].nan THEN 0 ELSE parsed[i].v]

parseData(data) ==
    LET tokens == split(data)
        parsed == [i \in 1..Len(tokens) |-> parseFloat(trim(tokens[i]))]
        kept == SelectSeq(parsed, LAMBDA p : ~p.nan)
    IN  [i \in 1..Len(kept) |-> kept[i].v]

\* data.map((_, i) => `Value ${i + 1}`) and data.map((y, x) => ({x, y}));
\* position k of a TLA+ sequence is the zero-based index k - 1
LiteralResult(data) ==
    [points |-> data,
     labels |-> [k \in 1..Len(data) |-> "Value " \o ToString((k - 1) + 1)],
     scatterData |-> [k \in 1..Len(data) |-> [x |-> k - 1, y |-> data[k]]]]

\* as LiteralSeries, but the success path does not call setError(null)
LiteralSeries_NoClear(c) ==
    LET data == parseData(c.data)
    IN  IF Len(data) = 0
        THEN Done(defaultResult, "emptyData", <<Msg(EmptyDataMsg)>>, <<>>)
        ELSE Done(LiteralResult(data), "literalOk", <<>>, <<>>)

LiteralSeries(c) ==
    LET data == parseData(c.data)
    IN  IF Len(data) = 0
        THEN Done(defaultResult, "emptyData", <<Msg(EmptyDataMsg)>>, <<>>)
        ELSE Done(LiteralResult(data), "literalOk", <<Null>>, <<>>)

\* One iteration of the loop body: evaluate, keep the sample when the result
\* is a finite number, skip it when evaluation raises or is NaN or infinite.
SampleStep(expr, x, acc) ==
    LET y == evaluate(expr, x)
        logged == [acc EXCEPT !.log = Append(@, x)]
    IN  IF y.kind = "raise" THEN logged
        ELSE IF ~isNaN(y) /\ isFinite(y)
        THEN [logged EXCEPT !.points = Append(@, y.v),
                            !.labels = Append(@, toFixed1(x)),
                            !.scatterData = Append(@, [x |-> x, y |-> y.v])]
        ELSE logged

\* as SampleLoop, but a raising evaluation ends the loop (break for continue)
RECURSIVE SampleLoop_Break(_, _, _, _, _, _)
SampleLoop_Break(expr, x, xMax, step, acc, fuel) ==
    IF ~(x <= xMax) THEN [acc EXCEPT !.exited = TRUE]
    ELSE IF fuel = 0 THEN acc
    ELSE IF evaluate(expr, x).kind = "raise"
    THEN [acc EXCEPT !.log = Append(@, x), !.exited = TRUE]
    ELSE SampleLoop_Break(expr, x + step, xMax, step, SampleStep(expr, x, acc), fuel - 1)

\* for (let x = xMin; x <= xMax; x += step); fuel counts the iterations still
\* followed, and a loop that has not exited when it runs out never exits
RECURSIVE SampleLoop(_, _, _, _, _, _)
SampleLoop(expr, x, xMax, step, acc, fuel) ==
    IF ~(x <= xMax) THEN [acc EXCEPT !.exited = TRUE]
    ELSE IF fuel = 0 THEN acc
    ELSE SampleLoop(expr, x + step, xMax, step, SampleStep(expr, x, acc), fuel - 1)

\* After the loop: an empty series is the no-valid-points error
LoopOutcome(acc) ==
    IF Len(acc.points) = 0
    THEN Done(defaultResult, "noPoints", <<Msg(NoPointsMsg)>>, acc.log)
    ELSE Done([points |-> acc.points, labels |-> acc.labels,
               scatterData |-> acc.scatterData], "sampledOk", <<Null>>, acc.log)

\* as ValidateAndSample, but a raising probe is ignored and sampling goes on
ValidateAndSample_NoReturn(expr, c) ==
    LET start == [points |-> <<>>, labels |-> <<>>, scatterData |-> <<>>,
                  log |-> <<ProbeX>>, exited |-> FALSE]
        acc == SampleLoop(expr, c.xMin, c.xMax, c.step, start, MaxIter)
    IN  IF acc.exited THEN LoopOutcome(acc) ELSE NeverReturns(acc.log)

\* The validation evaluation and what follows it
ValidateAndSample(expr, c) ==
    IF evaluate(expr, ProbeX).kind = "raise"
    THEN Done(defaultResult, "invalid", <<Msg(InvalidMsg)>>, <<ProbeX>>)
    ELSE LET start == [points |-> <<>>, labels |-> <<>>, scatterData |-> <<>>,
                       log |-> <<ProbeX>>, exited |-> FALSE]
             acc == SampleLoop(expr, c.xMin, c.xMax, c.step, start, MaxIter)
         IN  IF acc.exited THEN LoopOutcome(acc) ELSE NeverReturns(acc.log)

\* as EquationSeries, but without the check for an empty expression
EquationSeries_NoEmptyCheck(c) ==
    IF ~c.equation.isString THEN Thrown(TypeError(TypeErrorMsg))
    ELSE ValidateAndSample(trim(toLowerCase(c.equation.text)), c)

EquationSeries(c) ==
    IF ~c.equation.isString THEN Thrown(TypeError(TypeErrorMsg))   \* toLowerCase is not a function
    ELSE LET expr == trim(toLowerCase(c.equation.text))
         IN  IF expr = <<>>
             THEN Done(defaultResult, "missing", <<Msg(MissingMsg)>>, <<>>)
             ELSE ValidateAndSample(expr, c)

\* as CatchAll, but the catch block returns the default result without setError
CatchAll_NoSetError(b) ==
    IF b.thrown = <<>> THEN b
    ELSE Done(defaultResult, "caught", <<>>, b.evalLog)

\* The outer catch: err.message of an Error, the generic text otherwise
CatchAll(b) ==
    IF b.thrown = <<>> THEN b
    ELSE LET err == b.thrown[1]
         IN  Done(defaultResult, "caught",
                  <<Msg(IF err.isError THEN err.message ELSE GenericMsg)>>, b.evalLog)

seriesBuilder(c) ==
    CatchAll(IF c.type \notin equationKinds THEN LiteralSeries(c) ELSE EquationSeries(c))

----------------------------------------------------------------------------
(* The chart data adapter (the second useMemo of Graph) *)

ValuesText == <<"V", "a", "l", "u", "e", "s">>

\* controls.equation || 'Values': the empty string is falsy
labelOf(equation) ==
    IF equation.isString /\ equation.text = <<>> THEN ValuesText ELSE equation.text

\* colors.map(color => color.replace('0.8', '1'))
hoverColors == [i \in 1..Len(colors) |-> [colors[i] EXCEPT ![4] = "1"]]

abs(n) == IF n < 0 THEN 0 - n ELSE n
min(a, b) == IF a < b THEN a ELSE b

\* as radius, but without Math.abs
radius_NoAbs(type, y) ==
    IF type = "bubble" THEN min(y * RadiusFactor, MaxRadius) ELSE ScatterRadius

\* r of one scatter or bubble point
radius(type, y) ==
    IF type = "bubble" THEN min(abs(y) * RadiusFactor, MaxRadius) ELSE ScatterRadius

xyPoints(type, scatterData) ==
    [i \in 1..Len(scatterData) |->
        [x |-> scatterData[i].x, y |-> scatterData[i].y, r |-> radius(type, scatterData[i].y)]]

\* as multiColorDataset, but with one color per sample, taken cyclically
multiColorDataset_PerSample(type, s) ==
    [labels |-> s.labels,
     datasets |-> << [label |-> ValuesText, data |-> s.points,
                      backgroundColor |->
                          [k \in 1..Len(s.points) |-> colors[((k - 1) % Len(colors)) + 1]],
                      borderColor |-> "#0ff",
                      barPercentage |-> IF type = "histogram" THEN "1.0" ELSE "0.8",
                      hoverBackgroundColor |-> hoverColors] >>]

multiColorDataset(type, s) ==
    [labels |-> s.labels,
     datasets |-> << [label |-> ValuesText, data |-> s.points,
                      backgroundColor |-> colors, borderColor |-> "#0ff",
                      barPercentage |-> IF type = "histogram" THEN "1.0" ELSE "0.8",
                      hoverBackgroundColor |-> hoverColors] >>]

proportionDataset(s) ==
    [labels |-> s.labels,
     datasets |-> << [data |-> s.points, backgroundColor |-> colors,
                      borderColor |-> "#1a1b26",
                      hoverBackgroundColor |-> hoverColors] >>]

\* as chartDataOf, but without the cases of the switch: every type gets the
\* default dataset
chartDataOf_DefaultOnly(type, s, equation) ==
    [labels |-> s.labels,
     datasets |-> << [label |-> ValuesText, data |-> s.points,
                      backgroundColor |-> "rgba(0, 255, 255, 0.1)",
                      borderColor |-> "#0ff"] >>]

chartDataOf(type, s, equation) ==
    CASE type \in {"line", "area", "step"} ->
            [labels |-> s.labels,
             datasets |-> << [label |-> labelOf(equation), data |-> s.points,
                              borderColor |-> "#0ff",
                              backgroundColor |-> IF type = "area"
                                                  THEN "rgba(0, 255, 255, 0.1)"
                                                  ELSE "transparent",
                              fill |-> type = "area", stepped |-> type = "step"] >>]
      [] type \in {"bar", "histogram"} -> multiColorDataset(type, s)
      [] type \in {"scatter", "bubble"} ->
            [datasets |-> << [label |-> labelOf(equation),
                              data |-> xyPoints(type, s.scatterData),
                              backgroundColor |-> "rgba(0, 255, 255, 0.6)",
                              borderColor |-> "#0ff"] >>]
      [] type \in {"pie", "doughnut", "polar"} -> proportionDataset(s)
      [] type = "radar" ->
            [labels |-> s.labels,
             datasets |-> << [label |-> ValuesText, data |-> s.points,
                              backgroundColor |-> "rgba(0, 255, 255, 0.2)",
                              borderColor |-> "#0ff"] >>]
      [] OTHER ->
            [labels |-> s.labels,
             datasets |-> << [label |-> ValuesText, data |-> s.points,
                              backgroundColor |-> "rgba(0, 255, 255, 0.1)",
                              borderColor |-> "#0ff"] >>]

----------------------------------------------------------------------------
(* renderChart *)

\* if (error): null and the empty string are falsy
Truthy(err) == err # Null /\ err[1] # ""

chartElement(type) ==
    CASE type \in {"line", "area", "step"} -> "Line"
      [] type \in {"bar", "histogram"} -> "Bar"
      [] type \in {"scatter", "bubble"} -> "Scatter"
      [] type = "pie" -> "Pie"
      [] type = "doughnut" -> "Doughnut"
      [] type \in {"radar", "polar"} -> "Radar"
      [] OTHER -> "Line"

renderChart(err, type) ==
    IF Truthy(err) THEN [element |-> "ErrorBox", text |-> err[1]]
    ELSE [element |-> chartElement(type), text |-> ""]

----------------------------------------------------------------------------
(* Inputs *)

UnlistedType == "treemap"

Text(t) == [isString |-> TRUE, text |-> t]
NumberAsEquation == [isString |-> FALSE, text |-> <<"5">>]

EquationTexts ==
    { <<>>, <<" ", "-", "5", "*", "X", " ">>, Expr_mixed, Expr_xFact,
      <<"(", "X", "-", "2", ")", "!">> }

DataTokens == { <<"5">>, <<"a">> }

RECURSIVE join(_)
join(tokens) ==
    IF Len(tokens) = 1 THEN tokens[1]
    ELSE tokens[1] \o <<",">> \o join(Tail(tokens))

LongDataTexts ==
    { <<>>,
      <<"1", ",", "2", ",", "3", ",", "4", ",", "5", ",", "6", ",", "7">>,
      <<"a", ",", " ", "-", "5", "x", ",", " ", ",", "+", "7", " ">> }

DataTexts ==
    LongDataTexts \cup
    { join(ts) : ts \in UNION { [1..n -> DataTokens] : n \in 1..MaxTokens } }

XMinInputs == { <<"-", "1">>, <<"2">>, <<>> }
XMaxInputs == { <<"0">>, <<" ", "3">> }
StepInputs == { <<"-", "1">>, <<"0">>, <<"1">>, <<"2">>, <<"a">> }

NumbersOf(inputs) == { parseFloat(t).v : t \in { u \in inputs : ~parseFloat(u).nan } }

\* the controls a parent can mount Graph with
ControlsDomain ==
    [type : graphTypes, equation : { Text(t) : t \in EquationTexts }, data : DataTexts,
     xMin : NumbersOf(XMinInputs), xMax : NumbersOf(XMaxInputs), step : NumbersOf(StepInputs)]

----------------------------------------------------------------------------
(* Rendering Graph with given controls *)

\* The error state after the setError calls of one build
errorAfter(err, calls) == IF calls = <<>> THEN err ELSE calls[Len(calls)]

\* First render: useState(null), both memos computed, renderChart; when the
\* sampling loop never exits nothing is computed after it and nothing is shown
Init ==
    \E c \in ControlsDomain :
        LET b == seriesBuilder(c)
            err == errorAfter(Null, b.setError)
        IN  /\ controls = c
            /\ prevFailed = FALSE
            /\ evalLog = b.evalLog
            /\ lastPath = b.path
            /\ status = IF b.returned THEN "ready" ELSE "looping"
            /\ error = err
            /\ series = b.result
            /\ chartData = IF b.returned THEN chartDataOf(c.type, b.result, c.equation)
                           ELSE [datasets |-> <<>>]
            /\ view = IF b.returned THEN renderChart(err, c.type)
                      ELSE [element |-> "none", text |-> ""]

\* onChange(new): setControls, then Graph re-renders.  The series memo is
\* recomputed when one of its dependencies (every field of controls) changed;
\* its setError calls are applied before the render commits.
Rerender(new) ==
    LET b == seriesBuilder(new)
        err == errorAfter(error, b.setError)
    IN  /\ controls' = new
        /\ IF new = controls THEN
                UNCHANGED <<error, series, chartData, view, status, evalLog, lastPath, prevFailed>>
           ELSE IF ~b.returned THEN
                /\ status' = "looping"
                /\ evalLog' = b.evalLog
                /\ lastPath' = b.path
                /\ UNCHANGED <<error, series, chartData, view, prevFailed>>
           ELSE
                /\ status' = "ready"
                /\ evalLog' = b.evalLog
                /\ lastPath' = b.path
                /\ prevFailed' = (error # Null)
                /\ error' = err
                /\ series' = b.result
                /\ chartData' = chartDataOf(new.type, b.result, new.equation)
                /\ view' = renderChart(err, new.type)

\* handleChange(field, value) for a field that is not numeric
handleChange(field, value) ==
    /\ status = "ready"
    /\ Rerender([controls EXCEPT ![field] = value])

\* handleChange(field, value) for xMin, xMax, step: the input's text is parsed
\* and a text that is not a number is ignored
handleChangeNumeric(field, value) ==
    /\ status = "ready"
    /\ LET numValue == parseFloat(value)
       IN  IF numValue.nan THEN UNCHANGED vars
           ELSE Rerender([controls EXCEPT ![field] = numValue.v])

\* the select offers the 11 graph types; handleChange itself takes any value,
\* so a type outside the 11 is one more input of the handler
ChangeType == \E t \in graphTypes \cup {UnlistedType} : handleChange("type", t)
ChangeEquation ==
    \E e \in { Text(t) : t \in EquationTexts } \cup {NumberAsEquation} :
        handleChange("equation", e)
ChangeData == \E d \in DataTexts : handleChange("data", d)
ChangeXMin == \E t \in XMinInputs : handleChangeNumeric("xMin", t)
ChangeXMax == \E t \in XMaxInputs : handleChangeNumeric("xMax", t)
ChangeStep == \E t \in StepInputs : handleChangeNumeric("step", t)

Next ==
    \/ ChangeType
    \/ ChangeEquation
    \/ ChangeData
    \/ ChangeXMin
    \/ ChangeXMax
    \/ ChangeStep

Spec == Init /\ [][Next]_vars

----------------------------------------------------------------------------
(* Vocabulary of the properties, stated apart from the builder's code *)

EquationFamily == {"line", "area", "scatter", "bubble", "step"}
LiteralFamily == {"bar", "pie", "doughnut", "radar", "histogram", "polar"}
MultiColorFamily == {"bar", "histogram", "pie", "doughnut", "polar"}

Ready == status = "ready"
SeriesEmpty == series.points = <<>> /\ series.labels = <<>> /\ series.scatterData = <<>>
SeriesNonEmpty == series.points # <<>> /\ series.labels # <<>> /\ series.scatterData # <<>>

\* the expression the evaluator is given for the current controls
NormalExpr == trim(toLowerCase(controls.equation.text))

\* an equation-based kind whose equation is a string that is not blank
HasExpression ==
    /\ controls.type \in EquationFamily
    /\ controls.equation.isString
    /\ NormalExpr # <<>>

ProbeRaises == evaluate(NormalExpr, 1).kind = "raise"

\* the x values of the sampling domain, for a positive step
Domain ==
    IF controls.step > 0
    THEN { x \in { controls.xMin + k * controls.step : k \in 0..(MaxIter + 1) } :
             x <= controls.xMax }
    ELSE {}

ValidAt(x) == evaluate(NormalExpr, x).kind = "num"

\* the comma-separated tokens of the data text and the ones that parse
Tokens == split(controls.data)
TokenValue(i) == parseFloat(trim(Tokens[i]))
ParsedPositions == { i \in 1..Len(Tokens) : ~TokenValue(i).nan }
RankOf(i) == Cardinality({ j \in ParsedPositions : j <= i })

----------------------------------------------------------------------------
(* C1 *)

\* C1: after every recomputation that finishes, exactly one of "the series
\* (points, labels, scatterData) is non-empty" and "an error message is set"
\* holds, on every return path including the catch-all, and the renderer
\* shows the message exactly when the series is empty.
C1_SeriesXorError ==
    Ready =>
        /\ SeriesEmpty \/ SeriesNonEmpty
        /\ SeriesNonEmpty <=> error = Null
        /\ SeriesEmpty <=> Truthy(error)
        /\ SeriesEmpty <=> view.element = "ErrorBox"

C1_Witness ==
    /\ Ready
    /\ lastPath = "caught"
    /\ SeriesEmpty
    /\ error = Msg(TypeErrorMsg)

----------------------------------------------------------------------------
(* C2 *)

\* C2: for an equation-based kind whose expression passes validation, a step
\* that is 0 or negative is rejected before the sampling loop starts: the build
\* finishes with an error and the evaluator is called for the probe only.
C2_NonPositiveStepRejected ==
    (HasExpression /\ ~ProbeRaises /\ controls.step <= 0) =>
        /\ Ready
        /\ error # Null
        /\ evalLog = <<ProbeX>>

----------------------------------------------------------------------------
(* C3 *)

\* C3: after each recomputation the committed series, error state and view are
\* the ones a fresh build of the current controls gives, starting from no error:
\* nothing of an earlier recomputation survives, a success clears an earlier
\* message and a failure replaces it.
C3_ErrorOfCurrentControls ==
    Ready =>
        LET b == seriesBuilder(controls)
            fresh == errorAfter(Null, b.setError)
        IN  /\ b.returned
            /\ series = b.result
            /\ error = fresh
            /\ view = renderChart(fresh, controls.type)

C3_Witness ==
    /\ Ready
    /\ prevFailed
    /\ error = Null
    /\ SeriesNonEmpty

----------------------------------------------------------------------------
(* C4 *)

\* C4: for an equation-based kind with a validated expression and step > 0 the
\* series holds exactly one sample for each x of xMin, xMin+step, ... <= xMax
\* at which evaluation gives a finite number, in increasing x order, with y the
\* evaluator's result; every x of the domain is evaluated, also after a
\* raising or non-finite point.
C4_SamplesOfDomain ==
    (Ready /\ HasExpression /\ ~ProbeRaises /\ controls.step > 0) =>
        LET sd == series.scatterData
            n == Len(sd)
        IN  /\ { sd[i].x : i \in 1..n } = { x \in Domain : ValidAt(x) }
            /\ \A i, j \in 1..n : i < j => sd[i].x < sd[j].x
            /\ \A i \in 1..n :
                   /\ sd[i].y = evaluate(NormalExpr, sd[i].x).v
                   /\ series.points[i] = sd[i].y
                   /\ series.labels[i] = toFixed1(sd[i].x)
            /\ Len(series.points) = n /\ Len(series.labels) = n
            /\ Len(evalLog) = 1 + Cardinality(Domain)
            /\ { evalLog[k] : k \in 2..Len(evalLog) } = Domain

C4_Witness ==
    /\ Ready /\ HasExpression /\ ~ProbeRaises /\ controls.step > 0
    /\ \E x, z \in Domain :
          /\ x < z
          /\ evaluate(NormalExpr, x).kind = "raise"
          /\ ValidAt(z)
          /\ \E i \in 1..Len(series.scatterData) : series.scatterData[i].x = z
    /\ controls.xMax \in { series.scatterData[i].x : i \in 1..Len(series.scatterData) }

----------------------------------------------------------------------------
(* C5 *)

\* C5: the error of a finished build is fixed by the first failing stage: a
\* literal-data kind has the empty-data error iff no token parses and no other
\* error; an equation-based kind has the missing-expression error iff the
\* normalised equation is empty, else the invalid-format error iff the probe
\* raises, else the no-valid-points error iff no sample survives, else none;
\* every failure comes back as an empty series.
C5_FirstFailingStage ==
    Ready =>
        /\ controls.type \in LiteralFamily =>
              error = IF ParsedPositions = {} THEN Msg(EmptyDataMsg) ELSE Null
        /\ (controls.type \in EquationFamily /\ controls.equation.isString) =>
              error = IF NormalExpr = <<>> THEN Msg(MissingMsg)
                      ELSE IF ProbeRaises THEN Msg(InvalidMsg)
                      ELSE IF { x \in Domain : ValidAt(x) } = {} THEN Msg(NoPointsMsg)
                      ELSE Null
        /\ error # Null => SeriesEmpty

C5_Witness ==
    /\ Ready
    /\ HasExpression /\ ~ProbeRaises
    /\ Domain # {}
    /\ error = Msg(NoPointsMsg)

----------------------------------------------------------------------------
(* C6 *)

\* C6: when the validation evaluation at x = 1 raises, the build ends with the
\* invalid-equation-format error and an empty series and the evaluator has been
\* called exactly once, at 1, whatever the domain is.
C6_ProbeFailureStopsSampling ==
    (HasExpression /\ ProbeRaises) =>
        /\ Ready
        /\ error = Msg(InvalidMsg)
        /\ SeriesEmpty
        /\ evalLog = <<1>>

C6_Witness ==
    /\ HasExpression /\ ProbeRaises
    /\ Domain # {}
    /\ 1 \notin Domain
    /\ \A x \in Domain : ValidAt(x)
    /\ error = Msg(InvalidMsg)

----------------------------------------------------------------------------
(* C7 *)

SameSampling(c, d) ==
    /\ c.equation = d.equation
    /\ c.xMin = d.xMin
    /\ c.xMax = d.xMax
    /\ c.step = d.step

\* C7: the kind alone selects the input that is read.  A change that keeps an
\* equation-based kind and its equation, xMin, xMax and step leaves series and
\* error as they were; a change that keeps a literal-data kind and its data
\* leaves series, error and adapted dataset as they were and the build
\* finishes; and a literal-data kind whose data has a number never has an
\* error, whatever the equation and the step are.
C7_InputSelectedByKind ==
    /\ [][ (Ready /\ controls'.type = controls.type) =>
              /\ (controls.type \in EquationFamily /\ SameSampling(controls, controls')) =>
                    /\ status' = "ready"
                    /\ series' = series
                    /\ error' = error
              /\ (controls.type \in LiteralFamily /\ controls'.data = controls.data) =>
                    /\ status' = "ready"
                    /\ series' = series
                    /\ error' = error
                    /\ chartData' = chartData ]_vars
    /\ [](controls.type \in LiteralFamily =>
              /\ Ready
              /\ ParsedPositions # {} => error = Null)

C7_Witness ==
    /\ controls.type \in LiteralFamily
    /\ controls.equation.text = <<>>
    /\ controls.step <= 0
    /\ controls.xMin <= controls.xMax
    /\ Ready
    /\ error = Null
    /\ SeriesNonEmpty

----------------------------------------------------------------------------
(* C8 *)

\* C8: for a literal-data kind the series is the subsequence of the
\* comma-separated tokens that parse as numbers, in their order; the sample at
\* zero-based position i of that subsequence has x = i, y = the parsed value and
\* label "Value " followed by i+1; tokens that do not parse are dropped and
\* never fail the call.
C8_LiteralSubsequence ==
    controls.type \in LiteralFamily =>
        /\ Ready
        /\ Len(series.points) = Cardinality(ParsedPositions)
        /\ Len(series.labels) = Cardinality(ParsedPositions)
        /\ Len(series.scatterData) = Cardinality(ParsedPositions)
        /\ \A i \in ParsedPositions :
              /\ series.points[RankOf(i)] = TokenValue(i).v
              /\ series.labels[RankOf(i)] = "Value " \o ToString(RankOf(i))
              /\ series.scatterData[RankOf(i)] = [x |-> RankOf(i) - 1, y |-> TokenValue(i).v]

C8_Witness ==
    /\ controls.type \in LiteralFamily
    /\ Ready
    /\ \E i, j \in 1..Len(Tokens) : i < j /\ i \notin ParsedPositions /\ j \in ParsedPositions
    /\ \E i \in 1..Len(Tokens) : trim(Tokens[i]) = <<>>
    /\ Len(series.points) >= 2

----------------------------------------------------------------------------
(* C9 *)

Dataset == chartData.datasets[1]
PaletteLength == 6

\* C9 as stated: for the multi-color families the dataset of N samples carries
\* N colors, the color of sample i being palette entry i modulo 6.
C9_NColorsCyclic ==
    (Ready /\ controls.type \in MultiColorFamily /\ SeriesNonEmpty) =>
        /\ Len(Dataset.backgroundColor) = Len(Dataset.data)
        /\ \A k \in 1..Len(Dataset.data) :
              Dataset.backgroundColor[k] = colors[((k - 1) % PaletteLength) + 1]

\* C9 amended: for the multi-color families the dataset carries the fixed
\* palette of 6 colors, unchanged and in palette order, whatever the number N
\* of samples is and on every recomputation; entry i of it is palette entry i
\* for i < 6, and there is no entry per sample beyond the palette.
C9_FixedPalette ==
    (Ready /\ controls.type \in MultiColorFamily) =>
        /\ Len(Dataset.backgroundColor) = PaletteLength
        /\ Dataset.backgroundColor = colors
        /\ Len(Dataset.hoverBackgroundColor) = PaletteLength
        /\ Dataset.data = series.points

C9_Witness ==
    /\ Ready
    /\ controls.type \in MultiColorFamily
    /\ Len(Dataset.data) > PaletteLength
    /\ Len(Dataset.backgroundColor) = PaletteLength

----------------------------------------------------------------------------
(* C10 *)

\* C10: for kind bubble every sample maps to one point with the sample's x and
\* y unchanged and radius min(|y| * 2, 20): between 0 and 20, 2*|y| when
\* |y| <= 10 and 20 otherwise, the same for y and -y.
C10_BubbleRadius ==
    (Ready /\ controls.type = "bubble") =>
        /\ Len(Dataset.data) = Len(series.scatterData)
        /\ \A i \in 1..Len(series.scatterData) :
              LET s == series.scatterData[i]
                  pt == Dataset.data[i]
                  magnitude == IF s.y < 0 THEN 0 - s.y ELSE s.y
              IN  /\ pt.x = s.x
                  /\ pt.y = s.y
                  /\ pt.r >= 0 /\ pt.r <= 20
                  /\ pt.r = IF magnitude <= 10 THEN 2 * magnitude ELSE 20

C10_Witness ==
    /\ Ready
    /\ controls.type = "bubble"
    /\ \E i, j \in 1..Len(Dataset.data) :
          /\ Dataset.data[i].y = 0 - 15 /\ Dataset.data[i].r = 20
          /\ Dataset.data[j].y = 5 /\ Dataset.data[j].r = 10

----------------------------------------------------------------------------
(* C11 *)

XYFamily == {"scatter", "bubble"}

\* C11: the adapter is total and the shape of its output is fixed by the
\* family of the kind.  For each of the 11 kinds, and for a kind outside the
\* 11, a non-empty series gives one dataset with exactly one data entry per
\* sample, in series order; scatter and bubble give (x, y) points and no labels
\* field; every other kind, a kind outside the 11 included, gives the labels
\* and the values, of equal length; no y is altered and no sample is
\* reordered, dropped or added.
C11_AdapterShape ==
    (Ready /\ SeriesNonEmpty) =>
        /\ controls.type \in graphTypes \cup {UnlistedType}
        /\ "datasets" \in DOMAIN chartData
        /\ Len(chartData.datasets) = 1
        /\ Len(Dataset.data) = Len(series.points)
        /\ IF controls.type \in XYFamily
           THEN /\ "labels" \notin DOMAIN chartData
                /\ \A i \in 1..Len(Dataset.data) :
                      /\ Dataset.data[i].x = series.scatterData[i].x
                      /\ Dataset.data[i].y = series.scatterData[i].y
                      /\ Dataset.data[i].y = series.points[i]
           ELSE /\ "labels" \in DOMAIN chartData
                /\ chartData.labels = series.labels
                /\ Len(chartData.labels) = Len(Dataset.data)
                /\ Dataset.data = series.points

C11_Witness ==
    /\ Ready
    /\ SeriesNonEmpty
    /\ controls.type = UnlistedType
    /\ "labels" \in DOMAIN chartData
    /\ Len(Dataset.data) >= 2
    /\ Dataset.data = series.points

====
